---- MODULE Spec2Model ----
(***************************************************************************)
(* Model of the ink! contract `posts` (src/ink/posts/lib.rs): a ledger of  *)
(* posts and comments with like/dislike reactions.  The host delivers the  *)
(* messages one at a time, so every message is one atomic action.          *)
(***************************************************************************)
EXTENDS Integers, Sequences, FiniteSets, TLC

(* ---------------------------------------------------------------- bounds *)
\* create_post is not offered once this many posts are stored.
MaxPosts == 3
\* Successful mutating calls are not offered once this many events were emitted.
MaxEvents == 3

(* ------------------------------------------------------------- constants *)
\* The largest value of the u32 counters likes and dislikes.  u32::MAX is
\* 4294967295; TLC's integers end at 2147483647, which stands for it here: the
\* saturating operators below never compute a value above it.
U32Max == 2147483647

\* AccountId::default(): the all-zero account.
DefaultAccount == 0
\* The accounts that call the contract.
Accounts == {1, 2}

\* Post ids offered as arguments: 0, every id that can be stored, and one more.
PostIds == 0..(MaxPosts + 1)

\* Contents offered to create_post; "" is the empty string.
Contents == {"", "a", "b"}

\* Host values (block number, block timestamp) supplied to a call.
HostEnvs == {[block |-> 2, time |-> 20]}
\* Host values of two different blocks, and the contents offered with them.
HostEnvsWide == {[block |-> 2, time |-> 20], [block |-> 3, time |-> 30]}
HostContents == {"", "a"}

ReactionType == {"Like", "Dislike"}

RegularPost == [tag |-> "RegularPost"]
Comment(parent_id) == [tag |-> "Comment", parent_id |-> parent_id]
PostTypes == {RegularPost} \cup {Comment(p) : p \in PostIds}

\* count, posts, reactions: the storage of the contract.
\* events: the events emitted so far, oldest first.
\* last: the name and the return value of the latest call.
VARIABLES count, posts, reactions, events, last

vars == <<count, posts, reactions, events, last>>

(* ------------------------------------------------------- storage mapping *)
\* ink_storage::Mapping: a partial function; get yields None for a missing key.
MappingContains(m, k) == k \in DOMAIN m
MappingInsert(m, k, v) == [x \in (DOMAIN m) \cup {k} |-> IF x = k THEN v ELSE m[x]]

(* --------------------------------------------------------------- PostItem *)
CreationInfoDefault == [account |-> DefaultAccount, block |-> 0, time |-> 0]

PostItemDefault ==
    [id |-> 0,
     created |-> CreationInfoDefault,
     owner |-> DefaultAccount,
     post_type |-> RegularPost,
     content |-> "",
     comments_id |-> <<>>,
     likes |-> 0,
     dislikes |-> 0]

\* Mutant of saturating_add: the addition wraps around at the width of the counter.
wrapping_add(x, y) == IF x > U32Max - y THEN x - U32Max - 1 + y ELSE x + y

saturating_add(x, y) == IF x > U32Max - y THEN U32Max ELSE x + y
saturating_sub(x, y) == IF x < y THEN 0 ELSE x - y

\* Mutant of add_reaction: the item is built anew from PostItem::default() and
\* only its id and counters are carried over.
add_reaction_rebuild(post, reaction) ==
    [PostItemDefault EXCEPT
        !.id = post.id,
        !.likes = IF reaction = "Like" THEN saturating_add(post.likes, 1) ELSE post.likes,
        !.dislikes = IF reaction = "Like" THEN post.dislikes
                     ELSE saturating_add(post.dislikes, 1)]

add_reaction(post, reaction) ==
    IF reaction = "Like"
    THEN [post EXCEPT !.likes = saturating_add(post.likes, 1)]
    ELSE [post EXCEPT !.dislikes = saturating_add(post.dislikes, 1)]

remove_reaction(post, reaction) ==
    IF reaction = "Like"
    THEN [post EXCEPT !.likes = saturating_sub(post.likes, 1)]
    ELSE [post EXCEPT !.dislikes = saturating_sub(post.dislikes, 1)]

\* Mutant of add_comment: the new id is put in front of the earlier children.
add_comment_front(post, post_id) ==
    [post EXCEPT !.comments_id = <<post_id>> \o post.comments_id]

add_comment(post, post_id) ==
    [post EXCEPT !.comments_id = Append(post.comments_id, post_id)]

(* ------------------------------------------------------------------ Init *)
Init ==
    /\ count = 0
    /\ posts = <<>>
    /\ reactions = <<>>
    /\ events = <<>>
    /\ last = [op |-> "new", result |-> "Ok"]

(* ---------------------------------------------------------------- events *)
PostCreated(who, post_id) == [event |-> "PostCreated", who |-> who, post_id |-> post_id]
ReactionCreated(account, post_id, reaction) ==
    [event |-> "ReactionCreated", account |-> account, post_id |-> post_id,
     reaction |-> reaction]
ReactionDeleted(account, post_id, reaction) ==
    [event |-> "ReactionDeleted", account |-> account, post_id |-> post_id,
     reaction |-> reaction]

(* -------------------------------------------------------------- messages *)
\* The outcome of a message: its return value, the storage it leaves and the
\* events it emits.  An Err outcome carries the storage it was called on.
Failed(error) ==
    [result |-> error, count |-> count, posts |-> posts, reactions |-> reactions,
     emitted |-> <<>>]

\* Mutant of NewPostItem: the literal does not name `created`, which then comes
\* from PostItem::default().
NewPostItem_default_created(post_id, creator, env, post_type, content) ==
    [PostItemDefault EXCEPT
        !.id = post_id,
        !.post_type = post_type,
        !.content = content]

\* Mutant of NewPostItem: the literal does not name `content`, which then comes
\* from PostItem::default().
NewPostItem_default_content(post_id, creator, env, post_type, content) ==
    [PostItemDefault EXCEPT
        !.id = post_id,
        !.created = [account |-> creator, block |-> env.block, time |-> env.time],
        !.post_type = post_type]

\* The PostItem literal of create_post; the fields it does not name come from
\* PostItem::default().
NewPostItem(post_id, creator, env, post_type, content) ==
    [PostItemDefault EXCEPT
        !.id = post_id,
        !.created = [account |-> creator, block |-> env.block, time |-> env.time],
        !.post_type = post_type,
        !.content = content]

\* Mutant of comment_check: the id being assigned already counts as a post, so
\* that a comment may name itself as its parent.
comment_check_self(post_type, post_id) ==
    IF post_type.tag = "Comment"
    THEN IF post_type.parent_id = post_id
         THEN [result |-> "Ok", posts |-> posts]
         ELSE IF ~MappingContains(posts, post_type.parent_id)
              THEN [result |-> "InvalidParentId", posts |-> posts]
              ELSE [result |-> "Ok",
                    posts |-> MappingInsert(posts, post_type.parent_id,
                                 [posts[post_type.parent_id] EXCEPT
                                     !.comments_id = Append(@, post_id)])]
    ELSE [result |-> "Ok", posts |-> posts]

\* Mutant of comment_check: a missing parent is let through.
comment_check_lenient(post_type, post_id) ==
    IF post_type.tag = "Comment" /\ MappingContains(posts, post_type.parent_id)
    THEN [result |-> "Ok",
          posts |-> MappingInsert(posts, post_type.parent_id,
                       add_comment(posts[post_type.parent_id], post_id))]
    ELSE [result |-> "Ok", posts |-> posts]

\* `comment_check`: for a comment, the parent is looked up, the new id is pushed
\* on its comments_id and the parent is written back.
comment_check(post_type, post_id) ==
    IF post_type.tag = "Comment"
    THEN IF ~MappingContains(posts, post_type.parent_id)
         THEN [result |-> "InvalidParentId", posts |-> posts]
         ELSE [result |-> "Ok",
               posts |-> MappingInsert(posts, post_type.parent_id,
                            add_comment(posts[post_type.parent_id], post_id))]
    ELSE [result |-> "Ok", posts |-> posts]

\* Mutant of next_post_id: the id is taken from the counter before it advances.
next_post_id_zero_based == count

\* `let post_id = self.count + 1`
next_post_id == count + 1

\* Mutant of create_post_call: the new post is stored and the counter advanced
\* before the parent check decides the return value.
create_post_call_commit_first(caller, post_type, content, env) ==
    IF content = ""
    THEN Failed("ContentEmpty")
    ELSE LET post_id == next_post_id
             check   == comment_check(post_type, post_id)
         IN  [result    |-> check.result,
              count     |-> count + 1,
              posts     |-> MappingInsert(check.posts, post_id,
                               NewPostItem(post_id, caller, env, post_type, content)),
              reactions |-> reactions,
              emitted   |-> IF check.result = "Ok"
                            THEN <<PostCreated(caller, post_id)>> ELSE <<>>]

\* Mutant of create_post_call: the parent check comes before the content check.
create_post_call_parent_first(caller, post_type, content, env) ==
    LET post_id == next_post_id
        check   == comment_check(post_type, post_id)
    IN  IF check.result # "Ok"
        THEN Failed(check.result)
        ELSE IF content = ""
             THEN Failed("ContentEmpty")
             ELSE [result    |-> "Ok",
                   count     |-> count + 1,
                   posts     |-> MappingInsert(check.posts, post_id,
                                    NewPostItem(post_id, caller, env, post_type, content)),
                   reactions |-> reactions,
                   emitted   |-> <<PostCreated(caller, post_id)>>]

create_post_call(caller, post_type, content, env) ==
    IF content = ""
    THEN Failed("ContentEmpty")
    ELSE LET creator == caller
             post_id == next_post_id
             check   == comment_check(post_type, post_id)
         IN  IF check.result = "Ok"
             THEN [result    |-> "Ok",
                   count     |-> count + 1,
                   posts     |-> MappingInsert(check.posts, post_id,
                                    NewPostItem(post_id, creator, env, post_type, content)),
                   reactions |-> reactions,
                   emitted   |-> <<PostCreated(creator, post_id)>>]
             ELSE Failed(check.result)

\* Mutant of get_post_by_id_call: a missing post is answered with the default item.
get_post_by_id_call_default(post_id) ==
    IF ~MappingContains(posts, post_id)
    THEN [result |-> "Ok", value |-> PostItemDefault]
    ELSE [result |-> "Ok", value |-> posts[post_id]]

\* get_post_by_id: the stored item, or InvalidPostId.
get_post_by_id_call(post_id) ==
    IF ~MappingContains(posts, post_id)
    THEN [result |-> "InvalidPostId"]
    ELSE [result |-> "Ok", value |-> posts[post_id]]

get_post_count_call == count

\* Mutant of check_old: the old reaction is taken off without comparing it with
\* the new one.
check_old_no_compare(post, key, reaction) ==
    IF MappingContains(reactions, key)
    THEN [result |-> "Ok", post |-> remove_reaction(post, reactions[key])]
    ELSE [result |-> "Ok", post |-> post]

\* `check_old` of add_post_reaction: the post after the old reaction, if any,
\* was taken off, or SameReaction.
check_old(post, key, reaction) ==
    IF MappingContains(reactions, key)
    THEN IF reaction = reactions[key]
         THEN [result |-> "SameReaction", post |-> post]
         ELSE [result |-> "Ok", post |-> remove_reaction(post, reactions[key])]
    ELSE [result |-> "Ok", post |-> post]

\* Mutant of add_post_reaction_call: the reaction is recorded before the post is
\* looked up.
add_post_reaction_call_record_first(caller, post_id, reaction) ==
    IF ~MappingContains(posts, post_id)
    THEN [result    |-> "InvalidPostId",
          count     |-> count,
          posts     |-> posts,
          reactions |-> MappingInsert(reactions, <<post_id, caller>>, reaction),
          emitted   |-> <<>>]
    ELSE LET old == check_old(posts[post_id], <<post_id, caller>>, reaction)
         IN  IF old.result = "Ok"
             THEN [result    |-> "Ok",
                   count     |-> count,
                   posts     |-> MappingInsert(posts, post_id,
                                    add_reaction(old.post, reaction)),
                   reactions |-> MappingInsert(reactions, <<post_id, caller>>, reaction),
                   emitted   |-> <<ReactionCreated(caller, post_id, reaction)>>]
             ELSE Failed(old.result)

add_post_reaction_call(caller, post_id, reaction) ==
    IF ~MappingContains(posts, post_id)
    THEN Failed("InvalidPostId")
    ELSE LET old == check_old(posts[post_id], <<post_id, caller>>, reaction)
         IN  IF old.result = "Ok"
             THEN [result    |-> "Ok",
                   count     |-> count,
                   posts     |-> MappingInsert(posts, post_id,
                                    add_reaction(old.post, reaction)),
                   reactions |-> MappingInsert(reactions, <<post_id, caller>>, reaction),
                   emitted   |-> <<ReactionCreated(caller, post_id, reaction)>>]
             ELSE Failed(old.result)

\* Mutant of delete_post_reaction_call: the emit_event call is left out.
delete_post_reaction_call_no_event(caller, post_id) ==
    IF ~MappingContains(posts, post_id)
    THEN Failed("InvalidPostId")
    ELSE IF ~MappingContains(reactions, <<post_id, caller>>)
         THEN Failed("NoReaction")
         ELSE LET reaction == reactions[<<post_id, caller>>]
              IN  [result    |-> "Ok",
                   count     |-> count,
                   posts     |-> MappingInsert(posts, post_id,
                                    remove_reaction(posts[post_id], reaction)),
                   reactions |-> reactions,
                   emitted   |-> <<>>]

\* delete_post_reaction writes the post back and emits the event; it makes no
\* call on self.reactions other than get.
delete_post_reaction_call(caller, post_id) ==
    IF ~MappingContains(posts, post_id)
    THEN Failed("InvalidPostId")
    ELSE IF ~MappingContains(reactions, <<post_id, caller>>)
         THEN Failed("NoReaction")
         ELSE LET reaction == reactions[<<post_id, caller>>]
              IN  [result    |-> "Ok",
                   count     |-> count,
                   posts     |-> MappingInsert(posts, post_id,
                                    remove_reaction(posts[post_id], reaction)),
                   reactions |-> reactions,
                   emitted   |-> <<ReactionDeleted(caller, post_id, reaction)>>]

(* --------------------------------------------------------------- actions *)
\* A successful mutating call is offered only within the bounds of the model.
WithinBounds(out) == out.result = "Ok" => Len(events) < MaxEvents

Commit(out) ==
    /\ count' = out.count
    /\ posts' = out.posts
    /\ reactions' = out.reactions
    /\ events' = events \o out.emitted

CreatePost(contents, envs) ==
    \E caller \in Accounts, post_type \in PostTypes, content \in contents, env \in envs :
        LET out == create_post_call(caller, post_type, content, env)
        IN  /\ WithinBounds(out)
            /\ out.result = "Ok" => count < MaxPosts
            /\ Commit(out)
            /\ last' = [op |-> "create_post", result |-> out.result]

create_post == CreatePost(Contents, HostEnvs)

\* create_post called in either of two blocks.
create_post_hosts == CreatePost(HostContents, HostEnvsWide)

get_post_by_id ==
    \E post_id \in PostIds :
        LET out == get_post_by_id_call(post_id)
        IN  /\ UNCHANGED <<count, posts, reactions, events>>
            /\ last' = [op |-> "get_post_by_id", result |-> out.result,
                        post_id |-> post_id, out |-> out]

get_post_count ==
    /\ UNCHANGED <<count, posts, reactions, events>>
    /\ last' = [op |-> "get_post_count", result |-> "Ok", value |-> get_post_count_call]

add_post_reaction ==
    \E caller \in Accounts, post_id \in PostIds, reaction \in ReactionType :
        LET out == add_post_reaction_call(caller, post_id, reaction)
        IN  /\ WithinBounds(out)
            /\ Commit(out)
            /\ last' = [op |-> "add_post_reaction", result |-> out.result]

delete_post_reaction ==
    \E caller \in Accounts, post_id \in PostIds :
        LET out == delete_post_reaction_call(caller, post_id)
        IN  /\ WithinBounds(out)
            /\ Commit(out)
            /\ last' = [op |-> "delete_post_reaction", result |-> out.result]

Next ==
    \/ create_post
    \/ get_post_by_id
    \/ get_post_count
    \/ add_post_reaction
    \/ delete_post_reaction

Spec == Init /\ [][Next]_vars

\* The same contract with create_post called in two different blocks.
NextHosts ==
    \/ create_post_hosts
    \/ get_post_by_id
    \/ get_post_count
    \/ add_post_reaction
    \/ delete_post_reaction

SpecHosts == Init /\ [][NextHosts]_vars

\* The reaction messages on one stored post whose counters start at either end
\* of their range: the counters also count the reactions of accounts other than
\* those in Accounts.
EdgeCounters == {0, 1, U32Max - 1, U32Max}

ReactionMaps ==
    UNION {[{<<1, a>> : a \in as} -> ReactionType] : as \in SUBSET Accounts}

InitSat ==
    /\ count = 1
    /\ \E creator \in Accounts, env \in HostEnvs, l \in EdgeCounters, d \in EdgeCounters :
           posts = <<[NewPostItem(1, creator, env, RegularPost, "a")
                         EXCEPT !.likes = l, !.dislikes = d]>>
    /\ reactions \in ReactionMaps
    /\ events = <<>>
    /\ last = [op |-> "new", result |-> "Ok"]

NextSat ==
    \/ add_post_reaction
    \/ delete_post_reaction

SpecSat == InitSat /\ [][NextSat]_vars

(* ---------------------------------------------------------------- claims *)
Stored == DOMAIN posts

\* The accounts whose recorded reaction for post p is r.
Reactors(p, r) ==
    {a \in Accounts : MappingContains(reactions, <<p, a>>) /\ reactions[<<p, a>>] = r}

\* The event of the latest successful mutating call.
LastEvent == events[Len(events)]

\* The latest call was a successful delete_post_reaction.
JustDeleted == last.op = "delete_post_reaction" /\ last.result = "Ok"

\* C1: for every stored post, likes is the number of accounts whose recorded
\* reaction for it is Like and dislikes the number whose recorded reaction is
\* Dislike.
C1_CountersMatchReactions ==
    \A p \in Stored :
        /\ posts[p].likes = Cardinality(Reactors(p, "Like"))
        /\ posts[p].dislikes = Cardinality(Reactors(p, "Dislike"))

\* C2: a successful delete_post_reaction(p) by c leaves no reaction entry for
\* (p, c) and leaves the entry of every other (post, account) pair as it was.
C2_DeleteRemovesEntry ==
    [][(last'.op = "delete_post_reaction" /\ last'.result = "Ok") =>
          LET e   == events'[Len(events')]
              key == <<e.post_id, e.account>>
          IN  /\ ~MappingContains(reactions', key)
              /\ DOMAIN reactions' \ {key} = DOMAIN reactions \ {key}
              /\ \A k \in DOMAIN reactions \ {key} : reactions'[k] = reactions[k]]_vars

\* C3: right after a successful delete_post_reaction(p) by c, add_post_reaction(p, r)
\* by c succeeds for both kinds r, raises the counter of kind r by exactly one and
\* does not lower the other counter.
C3_AddAfterDeleteSucceeds ==
    JustDeleted =>
        \A r \in ReactionType :
            LET p   == LastEvent.post_id
                out == add_post_reaction_call(LastEvent.account, p, r)
            IN  /\ out.result = "Ok"
                /\ IF r = "Like"
                   THEN /\ out.posts[p].likes = posts[p].likes + 1
                        /\ out.posts[p].dislikes >= posts[p].dislikes
                   ELSE /\ out.posts[p].dislikes = posts[p].dislikes + 1
                        /\ out.posts[p].likes >= posts[p].likes

\* C4: delete_post_reaction(p) by c on a stored post returns NoReaction when c
\* never reacted to p or c's latest successful reaction call on p was a delete:
\* a delete that directly follows c's successful delete on p returns NoReaction
\* and leaves the post's counters as they are.
C4_SecondDeleteIsNoReaction ==
    /\ \A p \in Stored, c \in Accounts :
           ~MappingContains(reactions, <<p, c>>) =>
               delete_post_reaction_call(c, p) = Failed("NoReaction")
    /\ JustDeleted =>
           delete_post_reaction_call(LastEvent.account, LastEvent.post_id)
               = Failed("NoReaction")

Errors == {"ContentEmpty", "InvalidPostId", "InvalidParentId", "SameReaction", "NoReaction"}

\* The latest call was a successful create_post.
JustCreated == last.op = "create_post" /\ last.result = "Ok"

\* C5: a call that returns an error leaves count, posts and reactions as they
\* were and emits no event.
C5_ErrorsChangeNothing ==
    [][/\ last'.result \in Errors \cup {"Ok"}
       /\ last'.result \in Errors => UNCHANGED <<count, posts, reactions, events>>]_vars

C5_Witness ==
    /\ last.op = "add_post_reaction"
    /\ last.result = "SameReaction"
    /\ reactions # <<>>

\* C6: create_post(Comment{parent_id}, content) with non-empty content and a
\* parent_id that is no stored post (0, count + 1 or larger) returns
\* InvalidParentId with count and posts as they were and no event.
C6_InvalidParentRejected ==
    \A caller \in Accounts, parent_id \in PostIds \ Stored,
       content \in Contents \ {""}, env \in HostEnvs :
        create_post_call(caller, Comment(parent_id), content, env)
            = Failed("InvalidParentId")

C6_Witness ==
    /\ last.op = "create_post"
    /\ last.result = "InvalidParentId"
    /\ count = 2
    /\ {0, count + 1, count + 2} \subseteq PostIds \ Stored

\* C7: create_post with empty content returns ContentEmpty for every post_type,
\* also for a comment on a missing parent, with count and posts as they were; no
\* stored post has empty content.
C7_EmptyContentRejected ==
    /\ \A caller \in Accounts, post_type \in PostTypes, env \in HostEnvs :
           create_post_call(caller, post_type, "", env) = Failed("ContentEmpty")
    /\ \A p \in Stored : posts[p].content # ""

C7_Witness ==
    /\ last.op = "create_post"
    /\ last.result = "ContentEmpty"
    /\ count = 1

\* C8: every stored comment's parent is stored and lists the comment's id exactly
\* once; every id in a post's comments_id is a stored comment on that post; a
\* successful comment creation appends the new id to the parent's comments_id.
C8_Linked ==
    /\ \A c \in Stored :
           posts[c].post_type.tag = "Comment" =>
               LET p == posts[c].post_type.parent_id
               IN  /\ p \in Stored
                   /\ Cardinality({i \in DOMAIN posts[p].comments_id :
                                       posts[p].comments_id[i] = posts[c].id}) = 1
    /\ \A p \in Stored :
           \A i \in DOMAIN posts[p].comments_id :
               LET c == posts[p].comments_id[i]
               IN  c \in Stored /\ posts[c].post_type = Comment(p)

C8_Appends ==
    (/\ last'.op = "create_post"
     /\ last'.result = "Ok"
     /\ posts'[count'].post_type.tag = "Comment") =>
        LET p == posts'[count'].post_type.parent_id
        IN  posts'[p].comments_id = Append(posts[p].comments_id, count')

C8_CommentsLinked == []C8_Linked /\ [][C8_Appends]_vars

C8_Witness ==
    /\ JustCreated
    /\ \E p \in Stored : Len(posts[p].comments_id) = 2

\* C9: the stored ids are exactly 1..count, each post's id is its key, 0 is not
\* stored, get_post_count is the number of successful create_post calls; a
\* successful create_post stores id count + 1 and raises count by one, and no
\* other call changes count.
C9_Ids ==
    /\ Stored = 1..count
    /\ 0 \notin Stored
    /\ \A k \in Stored : posts[k].id = k
    /\ get_post_count_call
           = Cardinality({i \in DOMAIN events : events[i].event = "PostCreated"})

C9_Step ==
    IF last'.op = "create_post" /\ last'.result = "Ok"
    THEN /\ count' = count + 1
         /\ DOMAIN posts' = DOMAIN posts \cup {count + 1}
         /\ events'[Len(events')] = PostCreated(events'[Len(events')].who, count + 1)
    ELSE count' = count

C9_SequentialIds == []C9_Ids /\ [][C9_Step]_vars

C9_Witness ==
    /\ last.op = "get_post_count"
    /\ last.value = 3
    /\ \E k \in Stored : posts[k].post_type.tag = "Comment"

\* C10: a successful create_post with non-empty content, followed at once by
\* get_post_by_id(new id), returns a post with exactly that content, likes and
\* dislikes 0 and no comments.
C10_Created(caller, post_type, content, env) ==
    LET out == create_post_call(caller, post_type, content, env)
    IN  /\ out.result = "Ok"
        /\ count' = out.count
        /\ posts' = out.posts

C10_Fresh(got, content) ==
    /\ got.result = "Ok"
    /\ got.value.content = content
    /\ got.value.likes = 0
    /\ got.value.dislikes = 0
    /\ got.value.comments_id = <<>>

C10_CreateThenGet ==
    [][/\ (last'.op = "create_post" /\ last'.result = "Ok") =>
              \A id \in {events'[Len(events')].post_id} :
                  \A caller \in Accounts, post_type \in PostTypes,
                     content \in Contents \ {""}, env \in HostEnvs :
                      C10_Created(caller, post_type, content, env) =>
                          C10_Fresh(get_post_by_id_call(id)', content)
       /\ (JustCreated /\ last'.op = "get_post_by_id"
              /\ last'.post_id = LastEvent.post_id) =>
                  /\ C10_Fresh(last'.out, posts[last'.post_id].content)
                  /\ last'.out.value.content # ""]_vars

C10_Witness ==
    /\ last.op = "get_post_by_id"
    /\ last.post_id = count
    /\ last.out.result = "Ok"
    /\ last.out.value.content = "b"
    /\ last.out.value.post_type.tag = "Comment"
    /\ last.out.value.likes = 0
    /\ last.out.value.comments_id = <<>>

\* The other reaction kind.
Other(r) == IF r = "Like" THEN "Dislike" ELSE "Like"

\* The counter of kind r of a post.
Counter(post, r) == IF r = "Like" THEN post.likes ELSE post.dislikes

\* C11: add_post_reaction(p, r) by a caller whose recorded reaction on p is r
\* returns SameReaction with the post's counters and the reaction map as they
\* were, so that repeating the call gives the same answer.
C11_SameReactionRejected ==
    \A p \in Stored, c \in Accounts :
        MappingContains(reactions, <<p, c>>) =>
            add_post_reaction_call(c, p, reactions[<<p, c>>]) = Failed("SameReaction")

C11_Witness ==
    /\ last.op = "add_post_reaction"
    /\ last.result = "SameReaction"
    /\ \E p \in Stored : posts[p].dislikes = 1 /\ Reactors(p, "Dislike") # {}

\* C12: add_post_reaction(p, r) by a caller whose recorded reaction on p is the
\* other kind succeeds, lowers the counter of the old kind by exactly one, raises
\* the counter of kind r by exactly one and records r for (p, caller).
C12_SwitchMovesOneVote ==
    \A p \in Stored, c \in Accounts :
        MappingContains(reactions, <<p, c>>) =>
            LET old == reactions[<<p, c>>]
                r   == Other(old)
                out == add_post_reaction_call(c, p, r)
            IN  /\ out.result = "Ok"
                /\ Counter(out.posts[p], old) = Counter(posts[p], old) - 1
                /\ Counter(out.posts[p], r) = Counter(posts[p], r) + 1
                /\ out.posts[p].likes + out.posts[p].dislikes
                       = posts[p].likes + posts[p].dislikes
                /\ out.reactions[<<p, c>>] = r

\* The step leaves the storage that the outcome `out` of a successful call holds.
Explains(out) ==
    /\ out.result = "Ok"
    /\ count' = out.count
    /\ posts' = out.posts
    /\ reactions' = out.reactions

\* The step is a successful call of the message `op`.
Succeeds(op) == last'.op = op /\ last'.result = "Ok"

\* C13: the event log only grows at its end, by exactly one event per successful
\* mutating call and by none otherwise: PostCreated{caller, new id},
\* ReactionCreated{caller, post_id, new reaction} or ReactionDeleted{caller,
\* post_id, the reaction that was recorded}.
C13_Step ==
    /\ (last'.result # "Ok" \/ last'.op \in {"get_post_by_id", "get_post_count"}) =>
           events' = events
    /\ Succeeds("create_post") =>
           \E caller \in Accounts, post_type \in PostTypes,
              content \in Contents \ {""}, env \in HostEnvs :
               /\ Explains(create_post_call(caller, post_type, content, env))
               /\ events' = Append(events,
                      [event |-> "PostCreated", who |-> caller, post_id |-> count + 1])
    /\ Succeeds("add_post_reaction") =>
           \E caller \in Accounts, post_id \in Stored, reaction \in ReactionType :
               /\ Explains(add_post_reaction_call(caller, post_id, reaction))
               /\ events' = Append(events,
                      [event |-> "ReactionCreated", account |-> caller,
                       post_id |-> post_id, reaction |-> reaction])
    /\ Succeeds("delete_post_reaction") =>
           \E caller \in Accounts, post_id \in Stored :
               /\ MappingContains(reactions, <<post_id, caller>>)
               /\ Explains(delete_post_reaction_call(caller, post_id))
               /\ events' = Append(events,
                      [event |-> "ReactionDeleted", account |-> caller,
                       post_id |-> post_id, reaction |-> reactions[<<post_id, caller>>]])

C13_OneEventPerSuccess == [][C13_Step]_vars

C13_Witness ==
    /\ JustDeleted
    /\ Len(events) = 3
    /\ events[1].event = "PostCreated"
    /\ events[2].event = "ReactionCreated"
    /\ events[3].event = "ReactionDeleted"
    /\ events[3].reaction = "Dislike"

\* C14: get_post_by_id(id) returns InvalidPostId exactly when no post with that
\* id is stored, which is when id = 0 or id > count, and the stored item
\* otherwise; get_post_by_id and get_post_count leave count, posts, reactions and
\* the events as they were.
C14_Answers ==
    \A id \in PostIds :
        LET got == get_post_by_id_call(id)
        IN  /\ got.result = "InvalidPostId" <=> id \notin Stored
            /\ id \notin Stored <=> (id = 0 \/ id > count)
            /\ id \in Stored => got = [result |-> "Ok", value |-> posts[id]]

C14_ReadOnly ==
    /\ last'.op \in {"get_post_by_id", "get_post_count"} =>
           UNCHANGED <<count, posts, reactions, events>>
    /\ last'.op = "get_post_by_id" =>
           /\ last'.out = get_post_by_id_call(last'.post_id)
           /\ last'.result = last'.out.result
    /\ last'.op = "get_post_count" => last'.value = count

C14_GetPostById == []C14_Answers /\ [][C14_ReadOnly]_vars

C14_Witness ==
    /\ last.op = "get_post_by_id"
    /\ last.result = "InvalidPostId"
    /\ last.post_id = count + 1
    /\ count = 2
    /\ reactions # <<>>

\* C15: a successful add_post_reaction(p, r) or delete_post_reaction(p) by c
\* changes nothing but post p's likes and dislikes and the reaction entry of
\* (p, c): count, every other post, every other reaction entry and p's other
\* fields stay as they were.
C15_Frame ==
    (Succeeds("add_post_reaction") \/ Succeeds("delete_post_reaction")) =>
        LET e   == events'[Len(events')]
            p   == e.post_id
            key == <<e.post_id, e.account>>
        IN  /\ count' = count
            /\ DOMAIN posts' = DOMAIN posts
            /\ \A q \in DOMAIN posts \ {p} : posts'[q] = posts[q]
            /\ posts'[p] = [posts[p] EXCEPT !.likes = posts'[p].likes,
                                            !.dislikes = posts'[p].dislikes]
            /\ DOMAIN reactions' \ {key} = DOMAIN reactions \ {key}
            /\ \A k \in DOMAIN reactions \ {key} : reactions'[k] = reactions[k]

C15_ReactionFrame == [][C15_Frame]_vars

C15_Witness ==
    /\ last.op = "add_post_reaction"
    /\ last.result = "Ok"
    /\ count = 2
    /\ posts[1].likes = 1
    /\ posts[2].post_type.tag = "Comment"
    /\ posts[2].likes = 0 /\ posts[2].dislikes = 0

\* C16: a stored post's created is the caller of the create_post that stored it
\* with the block and time the host supplied to that call; no later call changes
\* a stored post's id, created, post_type or content.
C16_Step ==
    /\ Succeeds("create_post") =>
           \E caller \in Accounts, post_type \in PostTypes,
              content \in Contents \ {""}, env \in HostEnvsWide :
               /\ Explains(create_post_call(caller, post_type, content, env))
               /\ events'[Len(events')].who = caller
               /\ posts'[count + 1].created
                      = [account |-> caller, block |-> env.block, time |-> env.time]
               /\ posts'[count + 1].post_type = post_type
               /\ posts'[count + 1].content = content
    /\ \/ posts' = posts
       \/ \A k \in DOMAIN posts :
           /\ k \in DOMAIN posts'
           /\ posts'[k].id = posts[k].id
           /\ posts'[k].created = posts[k].created
           /\ posts'[k].post_type = posts[k].post_type
           /\ posts'[k].content = posts[k].content

C16_CreationFixed == [][C16_Step]_vars

C16_Witness ==
    /\ count = 2
    /\ posts[1].created = [account |-> 1, block |-> 2, time |-> 20]
    /\ posts[2].created = [account |-> 2, block |-> 3, time |-> 30]
    /\ posts[2].post_type = Comment(1)
    /\ posts[1].comments_id = <<2>>
    /\ posts[1].likes = 1

\* C17: the owner of every stored post is the caller that created it, which is
\* its created.account.
C17_OwnerIsCreator ==
    \A p \in Stored : posts[p].owner = posts[p].created.account

\* Following parent_id from post p reaches a RegularPost in at most n steps.
RECURSIVE ReachesRegular(_, _)
ReachesRegular(p, n) ==
    /\ p \in Stored
    /\ \/ posts[p].post_type.tag = "RegularPost"
       \/ n > 0 /\ ReachesRegular(posts[p].post_type.parent_id, n - 1)

\* C18: every comment's parent_id is below its own id, every comments_id is
\* strictly increasing with all elements above the post's own id, and following
\* parent_id from any post reaches a RegularPost.
C18_Acyclic ==
    /\ \A c \in Stored :
           posts[c].post_type.tag = "Comment" =>
               /\ posts[c].post_type.parent_id # posts[c].id
               /\ posts[c].post_type.parent_id < posts[c].id
    /\ \A p \in Stored :
           LET cs == posts[p].comments_id
           IN  /\ \A i \in DOMAIN cs : cs[i] > posts[p].id
               /\ \A i, j \in DOMAIN cs : i < j => cs[i] < cs[j]
    /\ \A p \in Stored : ReachesRegular(p, count)

C18_Witness ==
    /\ count = 3
    /\ posts[2].post_type = Comment(1)
    /\ posts[3].post_type = Comment(2)
    /\ JustCreated

\* C19: the counters saturate: taking off a reaction of a kind whose counter is 0
\* leaves it 0, adding one of a kind whose counter is at the maximum leaves it at
\* the maximum, likes and dislikes stay within 0..maximum, and whether
\* add_post_reaction and delete_post_reaction succeed does not depend on the
\* counters.
C19_Saturates ==
    /\ \A p \in Stored :
           /\ 0 <= posts[p].likes /\ posts[p].likes <= U32Max
           /\ 0 <= posts[p].dislikes /\ posts[p].dislikes <= U32Max
    /\ \A p \in Stored, r \in ReactionType :
           LET n == Counter(posts[p], r)
           IN  /\ Counter(remove_reaction(posts[p], r), r) = IF n = 0 THEN 0 ELSE n - 1
               /\ Counter(add_reaction(posts[p], r), r)
                      = IF n = U32Max THEN U32Max ELSE n + 1
               /\ Counter(remove_reaction(posts[p], r), Other(r))
                      = Counter(posts[p], Other(r))
               /\ Counter(add_reaction(posts[p], r), Other(r))
                      = Counter(posts[p], Other(r))
    /\ \A p \in Stored, c \in Accounts :
           LET recorded == MappingContains(reactions, <<p, c>>)
           IN  /\ delete_post_reaction_call(c, p).result
                      = IF recorded THEN "Ok" ELSE "NoReaction"
               /\ \A r \in ReactionType :
                      add_post_reaction_call(c, p, r).result
                          = IF recorded /\ reactions[<<p, c>>] = r
                            THEN "SameReaction" ELSE "Ok"

C19_Witness ==
    /\ Len(events) = 3
    /\ events[1] = ReactionCreated(1, 1, "Like")
    /\ events[2] = ReactionCreated(2, 1, "Like")
    /\ events[3] = ReactionDeleted(2, 1, "Like")
    /\ posts[1].likes = U32Max - 1
    /\ posts[1].dislikes = 0

\* C20: every key (post_id, account) of the reaction map names a stored post,
\* 1 <= post_id <= count; add_post_reaction and delete_post_reaction on a post
\* that is not stored return InvalidPostId.
C20_ReactionsOnStoredPosts ==
    /\ \A k \in DOMAIN reactions :
           /\ k[1] \in Stored
           /\ 1 <= k[1] /\ k[1] <= count
           /\ k[2] \in Accounts
    /\ \A c \in Accounts, p \in PostIds \ Stored :
           /\ delete_post_reaction_call(c, p).result = "InvalidPostId"
           /\ \A r \in ReactionType :
                  add_post_reaction_call(c, p, r).result = "InvalidPostId"

C20_Witness ==
    /\ last.op = "delete_post_reaction"
    /\ last.result = "InvalidPostId"
    /\ count = 2
    /\ DOMAIN reactions = {<<2, 1>>}

====
